---- MODULE Spec2Model ----
(***************************************************************************)
(* The per-server rolling time-bucket aggregator of                       *)
(* centurylinkchallenge.go: the servers map (Context), upsert, get and    *)
(* the backward scan of server.average with appendAndReset.                *)
(*                                                                         *)
(* Time is counted in ticks of 30 seconds.  A float64 quotient sum/count  *)
(* is kept as the exact fraction <<sum, count>>; two quotients are the    *)
(* same number when SameNumber holds of them.                              *)
(***************************************************************************)
EXTENDS Integers, Sequences, FiniteSets, TLC

\* time.Minute, in ticks
Minute == 2
\* time.Hour
Hour == 60 * Minute

\* ------------------------------------------------------------------ bounds
\* longest history drawn for a scan
MaxLen == 3
\* latest timestamp drawn for a scan; the scan's time.Now() is MaxTime - 1
MaxTime == 6
\* most buckets of a drawn window
MaxK == 2
\* most pulses handed to upsert in one run
MaxPulses == 2
\* latest timestamp of a pulse in the store, and latest reading of time.Now()
MaxClock == 1

\* (cpu, mem) load pairs a pulse may carry
Loads == {<<0, 1>>, <<2, 3>>}
\* bucket widths drawn for a scan: 30 s, 1 min, 2 min
Rates == {1, Minute, 2 * Minute}

\* server names a request may carry
Names == {"web-01", "web-02", ""}
\* the request handlers that run side by side
Handlers == {"h1", "h2"}

\* net/http status codes
StatusOK == 200
StatusNotFound == 404
StatusInternalServerError == 500

\* a nil error
nil == "nil"

VARIABLES
    servers,    \* Context.servers: name -> server
    clock,      \* the latest reading of time.Now()
    calls,      \* history variable: the pulses handed to upsert, in call order
    resp,       \* the response written last, and what its handler read
    pc,         \* where each side-by-side update handler stands
    stat,       \* its decoded pulse
    slice,      \* the slice its append returned, not yet assigned
    query,      \* the arguments of the running server.average call
    scan,       \* its locals, and where it stands
    reader      \* where the side-by-side get handler stands, and what it read

vars == <<servers, clock, calls, resp, pc, stat, slice, query, scan, reader>>

store == <<servers, clock, calls, resp>>
handlers == <<pc, stat, slice, reader>>

\* ------------------------------------------------------------ value types
\* type pulse
Pulse(name, cpu, mem, time) == [Name |-> name, Cpu |-> cpu, Mem |-> mem, Time |-> time]

\* &average{memsum: 0.0, cpusum: 0.0, count: 0}
NewAverage == [count |-> 0, memsum |-> 0, cpusum |-> 0]

\* the float64 division sum / float64(count), kept exact
Quotient(sum, count) == <<sum, count>>

SameNumber(x, y) == x[1] * y[2] = y[1] * x[2]

\* s.Statistics[i], with Go's index from 0
At(Statistics, i) == Statistics[i + 1]

\* ------------------------------------------------------------ server.average
\* time.Time.Before and time.Time.After
Before(t, u) == t < u
After(t, u) == t > u

\* start.Add(time.Duration(float64(-1 * durations) * rate.Minutes()) * time.Minute):
\* the float64 number of minutes is cut to a whole number by time.Duration(...)
DurationStart(start, durations, rate) ==
    start - ((durations * rate) \div Minute) * Minute

\* a plausible slip: the memory average is appended when memsum > 0
appendAndResetEachGuarded(cpuaverages, memaverages, a) ==
    << IF a.cpusum > 0 THEN Append(cpuaverages, Quotient(a.cpusum, a.count)) ELSE cpuaverages,
       IF a.memsum > 0 THEN Append(memaverages, Quotient(a.memsum, a.count)) ELSE memaverages,
       IF a.cpusum > 0 THEN NewAverage ELSE a >>

\* a plausible slip: the averages are appended without the test of cpusum
appendAndResetUnguarded(cpuaverages, memaverages, a) ==
    << Append(cpuaverages, Quotient(a.cpusum, a.count)),
       Append(memaverages, Quotient(a.memsum, a.count)),
       NewAverage >>

\* func appendAndReset: <<cpuaverages, memaverages, a>> as returned
appendAndReset(cpuaverages, memaverages, a) ==
    IF a.cpusum > 0
    THEN << Append(cpuaverages, Quotient(a.cpusum, a.count)),
            Append(memaverages, Quotient(a.memsum, a.count)),
            NewAverage >>
    ELSE << cpuaverages, memaverages, a >>

\* The locals of average before the first iteration.  acc and from are
\* history variables: the indices accumulated in a since it was last fresh,
\* and for each appended cpu average the indices it was computed from.
StartScan(Statistics) ==
    [ pc          |-> "for",
      i           |-> Len(Statistics) - 1,
      durations   |-> 1,
      a           |-> NewAverage,
      cpuaverages |-> <<>>,
      memaverages |-> <<>>,
      calculating |-> TRUE,
      acc         |-> {},
      from        |-> <<>> ]

\* history variables after a step that took the locals from st to the given values
Provenance(st, cpuaverages, a, added) ==
    [ from |-> IF Len(cpuaverages) > Len(st.cpuaverages)
               THEN Append(st.from, st.acc) ELSE st.from,
      acc  |-> IF a.count = 0 THEN {} ELSE st.acc \cup added ]

\* a plausible slip: the scan stops only at the end of the pulses
OutOfRangeOnlyAtEnd(st, q) == st.i < 0

\* i < 0 || s.Statistics[i].Time.Before(start.Add(-1 * length))
OutOfRange(st, q) ==
    IF st.i < 0 THEN TRUE
    ELSE Before(At(q.Statistics, st.i).Time, q.start - q.length)

\* s.Statistics[i].Time.After(start - durations * rate)
WithinDuration(st, q) ==
    After(At(q.Statistics, st.i).Time, DurationStart(q.start, st.durations, q.rate))

\* s.Statistics[i].Time.Before(start - durations * rate): the inner loop's test
BeforeDuration(st, q) ==
    Before(At(q.Statistics, st.i).Time, DurationStart(q.start, st.durations, q.rate))

\* the end-of-range branch: a last average is appended when cpusum > 0;
\* calculating = false; continue runs i-- and the loop test ends the loop
EndCalculating(st) ==
    LET cpu == IF st.a.cpusum > 0
               THEN Append(st.cpuaverages, Quotient(st.a.cpusum, st.a.count))
               ELSE st.cpuaverages
        mem == IF st.a.cpusum > 0
               THEN Append(st.memaverages, Quotient(st.a.memsum, st.a.count))
               ELSE st.memaverages
        h   == Provenance(st, cpu, st.a, {})
    IN  [st EXCEPT !.cpuaverages = cpu, !.memaverages = mem,
                   !.calculating = FALSE, !.i = @ - 1, !.pc = "done",
                   !.from = h.from]

\* a.count++; a.cpusum += Cpu; a.memsum += Mem; continue
Accumulate(st, q) ==
    LET p == At(q.Statistics, st.i)
        a == [ count  |-> st.a.count + 1,
               cpusum |-> st.a.cpusum + p.Cpu,
               memsum |-> st.a.memsum + p.Mem ]
    IN  [st EXCEPT !.a = a, !.i = @ - 1, !.acc = @ \cup {st.i}]

\* one round of the inner loop: durations++; appendAndReset
NextDuration(st) ==
    LET r == appendAndReset(st.cpuaverages, st.memaverages, st.a)
        h == Provenance(st, r[1], r[3], {})
    IN  [st EXCEPT !.durations = @ + 1,
                   !.cpuaverages = r[1], !.memaverages = r[2], !.a = r[3],
                   !.from = h.from, !.acc = h.acc]

\* a plausible slip: the i-- after the inner loop is left out
EndOfPulsesKeepingIndex(st) == [st EXCEPT !.pc = "for"]

\* after the inner loop: if i == 0 the result of appendAndReset is dropped
\* (the caller's slices and a keep their values); then i--
EndOfPulses(st) ==
    LET dropped == IF st.i = 0
                   THEN appendAndReset(st.cpuaverages, st.memaverages, st.a)
                   ELSE << st.cpuaverages, st.memaverages, st.a >>
    IN  [st EXCEPT !.i = @ - 1, !.pc = "for"]

\* one step of the loops of average
iteration(st, q) ==
    CASE st.pc = "for" ->
            IF OutOfRange(st, q) THEN EndCalculating(st)
            ELSE IF WithinDuration(st, q) THEN Accumulate(st, q)
            ELSE [st EXCEPT !.pc = "while"]
      [] st.pc = "while" ->
            IF BeforeDuration(st, q) THEN NextDuration(st) ELSE EndOfPulses(st)
      [] OTHER -> st

RECURSIVE RunScan(_, _)
RunScan(st, q) == IF st.pc = "done" THEN st ELSE RunScan(iteration(st, q), q)

Query(Statistics, start, length, rate) ==
    [Statistics |-> Statistics, start |-> start, length |-> length, rate |-> rate]

\* func (s *server) average(length, rate): <<memaverages, cpuaverages>>
average(Statistics, start, length, rate) ==
    LET st == RunScan(StartScan(Statistics), Query(Statistics, start, length, rate))
    IN  << st.memaverages, st.cpuaverages >>


\* ------------------------------------------------------- Context and handlers
\* c.servers[name] = &server{Name: name, Statistics: make([]*pulse, 0)}
Created(c, name) ==
    [ n \in DOMAIN c \cup {name} |->
        IF n = name THEN [Name |-> name, Statistics |-> <<>>] ELSE c[n] ]

\* c.servers[name].Statistics = statistics
Assigned(c, name, statistics) == [c EXCEPT ![name].Statistics = statistics]

\* a plausible slip: the server is made anew on every upsert
upsertAlwaysCreating(c, s) ==
    [ servers |-> Assigned(Created(c, s.Name), s.Name, <<s>>),
      status  |-> StatusOK,
      err     |-> nil,
      written |-> <<>> ]

\* a plausible slip: the pulse is appended in an else branch, so the upsert
\* that makes the server stores no pulse
upsertCreateOrAppend(c, s) ==
    [ servers |-> IF s.Name \in DOMAIN c
                  THEN Assigned(c, s.Name, Append(c[s.Name].Statistics, s))
                  ELSE Created(c, s.Name),
      status  |-> StatusOK,
      err     |-> nil,
      written |-> <<>> ]

\* a plausible slip: the servers share one slice, the pulse lands in each
upsertIntoEvery(c, s) ==
    LET made == IF s.Name \in DOMAIN c THEN c ELSE Created(c, s.Name)
    IN  [ servers |-> [ n \in DOMAIN made |->
                          [made[n] EXCEPT !.Statistics = Append(@, s)] ],
          status  |-> StatusOK,
          err     |-> nil,
          written |-> <<>> ]

\* func (c *Context) upsert(s *pulse) (int, error), and the map it leaves;
\* neither upsert nor update writes to w
upsert(c, s) ==
    LET made == IF s.Name \in DOMAIN c THEN c ELSE Created(c, s.Name)
    IN  [ servers |-> Assigned(made, s.Name, Append(made[s.Name].Statistics, s)),
          status  |-> StatusOK,
          err     |-> nil,
          written |-> <<>> ]

\* a plausible slip: an empty history is answered like an unknown server
getFailingOnEmpty(c, server, now60, now24) ==
    IF server \notin DOMAIN c \/ Len(c[server].Statistics) = 0
    THEN [ status |-> StatusInternalServerError, err |-> "No server information found", written |-> <<>> ]
    ELSE LET h60 == average(c[server].Statistics, now60, 60 * Minute, Minute)
             h24 == average(c[server].Statistics, now24, 24 * Hour, Hour)
         IN  [ status |-> StatusOK, err |-> nil,
               written |-> << "Averages", h60[1], h60[2], h24[1], h24[2] >> ]

\* func get: the status and error returned, and what was written to w.
\* now60 and now24 are the readings of time.Now() of the two average calls.
get(c, server, now60, now24) ==
    IF server \notin DOMAIN c
    THEN [ status |-> StatusInternalServerError, err |-> "No server information found", written |-> <<>> ]
    ELSE IF Len(c[server].Statistics) = 0
    THEN [ status |-> StatusOK, err |-> nil, written |-> << "No update information", server >> ]
    ELSE LET h60 == average(c[server].Statistics, now60, 60 * Minute, Minute)
             h24 == average(c[server].Statistics, now24, 24 * Hour, Hour)
         IN  [ status |-> StatusOK, err |-> nil,
               written |-> << "Averages", h60[1], h60[2], h24[1], h24[2] >> ]

\* http.StatusText
StatusText(status) ==
    CASE status = StatusOK -> "OK"
      [] status = StatusNotFound -> "Not Found"
      [] status = StatusInternalServerError -> "Internal Server Error"
      [] OTHER -> ""

\* func (h Handler) ServeHTTP: the status code and the body the client gets.
\* Without an error the handler's status is not looked at.
ServeHTTP(r) ==
    IF r.err # nil
    THEN CASE r.status = StatusNotFound ->
                [code |-> StatusNotFound, body |-> << "404 page not found" >>]
           [] r.status = StatusInternalServerError ->
                [code |-> r.status, body |-> << StatusText(r.status) >>]
           [] OTHER ->
                [code |-> r.status, body |-> << StatusText(r.status) >>]
    ELSE [code |-> StatusOK, body |-> r.written]

\* What a handler answered.  saw is a history variable: <<Statistics>> of the
\* server the handler found, <<>> when it found none.
Response(handler, server, r, saw, now60) ==
    [ handler |-> handler, server |-> server, code |-> ServeHTTP(r).code,
      body |-> ServeHTTP(r).body, saw |-> saw, now60 |-> now60 ]

NoResponse ==
    [ handler |-> "none", server |-> "", code |-> 0, body |-> <<>>, saw |-> <<>>, now60 |-> 0 ]

Saw(c, server) == IF server \in DOMAIN c THEN << c[server].Statistics >> ELSE <<>>

NoPulse == Pulse("", 0, 0, 0)

Pulses == { Pulse(n, l[1], l[2], t) : n \in Names, l \in Loads, t \in 0..MaxClock }

StoreInit ==
    /\ servers = [n \in {} |-> 0]
    /\ clock = 0
    /\ calls = <<>>
    /\ resp = NoResponse

\* the get handler before its request: seen are the Statistics it read, in the
\* order of its reads (history variable); h60 is the result of its first
\* average call
NoReader == [ pc |-> "idle", server |-> "", seen |-> <<>>, h60 |-> <<>> ]

HandlersInit ==
    /\ pc = [h \in Handlers |-> "idle"]
    /\ stat = [h \in Handlers |-> NoPulse]
    /\ slice = [h \in Handlers |-> <<>>]
    /\ reader = NoReader

ScanInit ==
    /\ query = Query(<<>>, 0, Minute, Minute)
    /\ scan = StartScan(<<>>)

\* ----------------------------------------- requests served one after another
Init == StoreInit /\ HandlersInit /\ ScanInit

\* func update, with a body that decodes to the pulse s
Update(s) ==
    /\ Len(calls) < MaxPulses
    /\ servers' = upsert(servers, s).servers
    /\ calls' = Append(calls, s)
    /\ resp' = Response("update", s.Name, upsert(servers, s), Saw(servers, s.Name), clock)
    /\ UNCHANGED <<clock, handlers, query, scan>>

\* func update, with a body that does not decode: return 500, err
UpdateUndecodable ==
    /\ resp' = Response("update", "",
                        [status |-> StatusInternalServerError, err |-> "decode", written |-> <<>>],
                        <<>>, clock)
    /\ UNCHANGED <<servers, clock, calls, handlers, query, scan>>

\* a plausible slip: the lookup of an unknown name leaves an entry behind
GetCreating(server) ==
    \E now60 \in clock..MaxClock :
      \E now24 \in { now60, IF now60 < MaxClock THEN now60 + 1 ELSE now60 } :
        /\ resp' = Response("get", server, get(servers, server, now60, now24),
                            Saw(servers, server), now60)
        /\ clock' = now24
        /\ servers' = IF server \in DOMAIN servers THEN servers ELSE Created(servers, server)
        /\ UNCHANGED <<calls, handlers, query, scan>>

\* func get for /get/{server}
Get(server) ==
    \E now60 \in clock..MaxClock :
      \E now24 \in { now60, IF now60 < MaxClock THEN now60 + 1 ELSE now60 } :
        /\ resp' = Response("get", server, get(servers, server, now60, now24),
                            Saw(servers, server), now60)
        /\ clock' = now24
        /\ UNCHANGED <<servers, calls, handlers, query, scan>>

Next ==
    \/ \E s \in Pulses : Update(s)
    \/ UpdateUndecodable
    \/ \E server \in Names : Get(server)

Spec == Init /\ [][Next]_vars

\* -------------------------------------------- update handlers side by side
\* Nothing guards c.servers: the reads and writes of two upserts interleave.
\* Each step below is one read or one write of the map or of a Statistics field;
\* the outcomes of the race are the interleavings of these steps.  (The Go
\* runtime may also abort the process when it notices two map writes at once;
\* that outcome is left out.)

\* func update decodes the body into stat; the pulses of this specification
\* are stamped no later than the clock
Receive(h, s) ==
    /\ pc[h] = "idle"
    /\ s.Time <= clock
    /\ Len(calls) < MaxPulses
    /\ stat' = [stat EXCEPT ![h] = s]
    /\ calls' = Append(calls, s)
    /\ pc' = [pc EXCEPT ![h] = "lookup"]
    /\ UNCHANGED <<servers, clock, resp, slice, query, scan, reader>>

\* if _, exists := c.servers[s.Name]; !exists
Lookup(h) ==
    /\ pc[h] = "lookup"
    /\ pc' = [pc EXCEPT ![h] = IF stat[h].Name \in DOMAIN servers THEN "append" ELSE "create"]
    /\ UNCHANGED <<store, stat, slice, query, scan, reader>>

\* c.servers[s.Name] = &server{...}
Create(h) ==
    /\ pc[h] = "create"
    /\ servers' = Created(servers, stat[h].Name)
    /\ pc' = [pc EXCEPT ![h] = "append"]
    /\ UNCHANGED <<clock, calls, resp, stat, slice, query, scan, reader>>

\* append(c.servers[s.Name].Statistics, s)
AppendPulse(h) ==
    /\ pc[h] = "append"
    /\ slice' = [slice EXCEPT ![h] = Append(servers[stat[h].Name].Statistics, stat[h])]
    /\ pc' = [pc EXCEPT ![h] = "assign"]
    /\ UNCHANGED <<store, stat, query, scan, reader>>

\* c.servers[s.Name].Statistics = ...; return 200, nil: the handler's locals are gone
Assign(h) ==
    /\ pc[h] = "assign"
    /\ servers' = Assigned(servers, stat[h].Name, slice[h])
    /\ resp' = Response("update", stat[h].Name,
                        [status |-> StatusOK, err |-> nil, written |-> <<>>],
                        Saw(servers, stat[h].Name), clock)
    /\ pc' = [pc EXCEPT ![h] = "idle"]
    /\ stat' = [stat EXCEPT ![h] = NoPulse]
    /\ slice' = [slice EXCEPT ![h] = <<>>]
    /\ UNCHANGED <<clock, calls, query, scan, reader>>

\* a get between two steps of the update handlers
GetBetween(server) ==
    /\ resp' = Response("get", server, get(servers, server, clock, clock),
                        Saw(servers, server), clock)
    /\ UNCHANGED <<servers, clock, calls, handlers, query, scan>>

NextConc ==
    \/ \E h \in Handlers, s \in Pulses : Receive(h, s)
    \/ \E h \in Handlers : Lookup(h)
    \/ \E h \in Handlers : Create(h)
    \/ \E h \in Handlers : AppendPulse(h)
    \/ \E h \in Handlers : Assign(h)
    \/ \E server \in Names : GetBetween(server)

SpecConc == Init /\ [][NextConc]_vars

\* ------------------------------------- a get beside the update handlers
\* get reads c.servers[server] anew for the test of line 106, for the length
\* of line 109 and for each of the two average calls; the update handlers step
\* in between.  Each average call is taken as one read of Statistics.

\* func get is called for /get/{server}
ReadStart(server) ==
    /\ reader.pc \in {"idle", "done"}
    /\ reader' = [ pc |-> "exists", server |-> server, seen |-> <<>>, h60 |-> <<>> ]
    /\ UNCHANGED <<store, pc, stat, slice, query, scan>>

\* if _, exists := c.servers[server]; !exists { return 500, errors.New(...) }
ReadExists ==
    /\ reader.pc = "exists"
    /\ IF reader.server \in DOMAIN servers
       THEN /\ reader' = [reader EXCEPT !.pc = "len"]
            /\ UNCHANGED resp
       ELSE /\ reader' = [reader EXCEPT !.pc = "done"]
            /\ resp' = Response("get", reader.server,
                                [ status |-> StatusInternalServerError,
                                  err |-> "No server information found", written |-> <<>> ],
                                <<>>, clock)
    /\ UNCHANGED <<servers, clock, calls, pc, stat, slice, query, scan>>

\* if len(c.servers[server].Statistics) == 0 { Fprintf(w, ...); return 200, nil }
ReadLen ==
    /\ reader.pc = "len"
    /\ LET read == servers[reader.server].Statistics
       IN  IF Len(read) = 0
           THEN /\ reader' = [reader EXCEPT !.pc = "done", !.seen = Append(@, read)]
                /\ resp' = Response("get", reader.server,
                                    [ status |-> StatusOK, err |-> nil,
                                      written |-> << "No update information", reader.server >> ],
                                    << read >>, clock)
           ELSE /\ reader' = [reader EXCEPT !.pc = "average60", !.seen = Append(@, read)]
                /\ UNCHANGED resp
    /\ UNCHANGED <<servers, clock, calls, pc, stat, slice, query, scan>>

\* mem60, cpu60 := c.servers[server].average(time.Minute * 60, time.Minute * 1)
ReadAverage60 ==
    /\ reader.pc = "average60"
    /\ LET read == servers[reader.server].Statistics
       IN  reader' = [reader EXCEPT !.pc = "average24", !.seen = Append(@, read),
                                    !.h60 = average(read, clock, 60 * Minute, Minute)]
    /\ UNCHANGED <<store, pc, stat, slice, query, scan>>

\* mem24, cpu24 := c.servers[server].average(time.Hour * 24, time.Hour * 1);
\* Fprintf(w, ...); return 200, nil
ReadAverage24 ==
    /\ reader.pc = "average24"
    /\ LET read == servers[reader.server].Statistics
           h24 == average(read, clock, 24 * Hour, Hour)
       IN  /\ reader' = [reader EXCEPT !.pc = "done", !.seen = Append(@, read)]
           /\ resp' = Response("get", reader.server,
                               [ status |-> StatusOK, err |-> nil,
                                 written |-> << "Averages", reader.h60[1], reader.h60[2],
                                                h24[1], h24[2] >> ],
                               << reader.seen[1] >>, clock)
    /\ UNCHANGED <<servers, clock, calls, pc, stat, slice, query, scan>>

NextRead ==
    \/ \E h \in Handlers, s \in Pulses : Receive(h, s)
    \/ \E h \in Handlers : Lookup(h)
    \/ \E h \in Handlers : Create(h)
    \/ \E h \in Handlers : AppendPulse(h)
    \/ \E h \in Handlers : Assign(h)
    \/ \E server \in Names : ReadStart(server)
    \/ ReadExists
    \/ ReadLen
    \/ ReadAverage60
    \/ ReadAverage24

SpecRead == Init /\ [][NextRead]_vars

\* ------------------------------------------------- the scan, step by step
RECURSIVE Histories(_)
Histories(n) ==
    IF n = 0 THEN {<<>>}
    ELSE LET shorter == Histories(n - 1)
         IN  shorter \cup
             { Append(h, Pulse("web-01", l[1], l[2], t)) :
                 h \in {x \in shorter : Len(x) = n - 1}, l \in Loads, t \in 0..MaxTime }

InitAvg ==
    /\ \E h \in Histories(MaxLen), rate \in Rates, k \in 1..MaxK :
          query = Query(h, MaxTime - 1, k * rate, rate)
    /\ scan = StartScan(query.Statistics)
    /\ StoreInit /\ HandlersInit

ScanEnd ==
    /\ scan.pc = "for" /\ OutOfRange(scan, query)
    /\ scan' = iteration(scan, query)
    /\ UNCHANGED <<query, store, handlers>>

ScanAccumulate ==
    /\ scan.pc = "for" /\ ~OutOfRange(scan, query) /\ WithinDuration(scan, query)
    /\ scan' = iteration(scan, query)
    /\ UNCHANGED <<query, store, handlers>>

ScanPastDuration ==
    /\ scan.pc = "for" /\ ~OutOfRange(scan, query) /\ ~WithinDuration(scan, query)
    /\ scan' = iteration(scan, query)
    /\ UNCHANGED <<query, store, handlers>>

ScanNextDuration ==
    /\ scan.pc = "while" /\ BeforeDuration(scan, query)
    /\ scan' = iteration(scan, query)
    /\ UNCHANGED <<query, store, handlers>>

ScanEndOfPulses ==
    /\ scan.pc = "while" /\ ~BeforeDuration(scan, query)
    /\ scan' = iteration(scan, query)
    /\ UNCHANGED <<query, store, handlers>>

NextAvg ==
    \/ ScanEnd
    \/ ScanAccumulate
    \/ ScanPastDuration
    \/ ScanNextDuration
    \/ ScanEndOfPulses

SpecAvg == InitAvg /\ [][NextAvg]_vars

\* ------------------------------------- seventy minutes of pulses, one a minute
\* the newest pulse is stamped at time.Now() or 30 s before it
Init70 ==
    /\ \E phase \in {0, 1}, step \in {1, 2} :
          query = Query([n \in 1..70 |->
                            Pulse("web-01", 1 + ((n * step) % 5), 1 + (n % 7),
                                  80 * Minute - phase - (70 - n) * Minute)],
                        80 * Minute, 60 * Minute, Minute)
    /\ scan = StartScan(query.Statistics)
    /\ StoreInit /\ HandlersInit

Spec70 == Init70 /\ [][NextAvg]_vars

\* ------------------------------------------------ what the store should hold
\* the pulses handed to upsert for one name, in call order
CallsFor(name) ==
    LET named(p) == p.Name = name
    IN  SelectSeq(calls, named)

RECURSIVE TotalCpu(_)
TotalCpu(statistics) ==
    IF statistics = <<>> THEN 0 ELSE Head(statistics).Cpu + TotalCpu(Tail(statistics))

RECURSIVE TotalMem(_)
TotalMem(statistics) ==
    IF statistics = <<>> THEN 0 ELSE Head(statistics).Mem + TotalMem(Tail(statistics))

\* how often the pulse p stands in a sequence of pulses
Count(p, statistics) == Cardinality({ n \in 1..Len(statistics) : statistics[n] = p })

AllIdle == \A h \in Handlers : pc[h] = "idle"

\* C1: when two upserts for one name ran side by side and both returned, the
\* history of the name holds each pulse handed to upsert as often as it was
\* handed over: none is lost, none is there twice.
C1_NoLostUpdate ==
    AllIdle =>
        \A name \in Names :
            LET handed == CallsFor(name)
            IN  IF handed = <<>> THEN name \notin DOMAIN servers
                ELSE /\ name \in DOMAIN servers
                     /\ Len(servers[name].Statistics) = Len(handed)
                     /\ \A n \in 1..Len(handed) :
                           Count(handed[n], servers[name].Statistics) = Count(handed[n], handed)

\* C2: with the requests served one after another, the names in the map are
\* those upsert was called for, and the history of each is the sequence of
\* its pulses in call order, each once; gets in between change nothing of it.
C2_HistoryIsCallLog ==
    /\ DOMAIN servers = { name \in Names : CallsFor(name) # <<>> }
    /\ \A name \in DOMAIN servers :
          /\ servers[name].Name = name
          /\ servers[name].Statistics = CallsFor(name)

\* a get that read a history of two different pulses, still in the store
C2_Witness ==
    /\ resp.handler = "get"
    /\ resp.saw # <<>>
    /\ Len(resp.saw[1]) = 2
    /\ resp.saw[1][1] # resp.saw[1][2]
    /\ servers[resp.server].Statistics = resp.saw[1]

\* C6: when every pulse of the server is stamped in the most recent minute
\* [now - 1 min, now), the 60-minute answer of get is one bucket holding the
\* means of cpu and of mem over all the pulses.
C6_SameBucketMean ==
    ( /\ resp.handler = "get"
      /\ resp.saw # <<>>
      /\ resp.saw[1] # <<>>
      /\ \A n \in 1..Len(resp.saw[1]) :
            /\ resp.now60 - Minute <= resp.saw[1][n].Time
            /\ resp.saw[1][n].Time < resp.now60 ) =>
        /\ resp.body[1] = "Averages"
        /\ Len(resp.body[2]) = 1
        /\ Len(resp.body[3]) = 1
        /\ SameNumber(resp.body[2][1], Quotient(TotalMem(resp.saw[1]), Len(resp.saw[1])))
        /\ SameNumber(resp.body[3][1], Quotient(TotalCpu(resp.saw[1]), Len(resp.saw[1])))

\* the answer to a get for a server that is in the map with no pulse
EmptyAnswer(server) == ServeHTTP(get(Created(servers, server), server, clock, clock))

\* C9: a get for a name never handed to upsert is answered Not Found, and
\* not as a get for a server with no pulse is.
C9_UnknownIsNotFound ==
    (resp.handler = "get" /\ resp.saw = <<>>) =>
        /\ resp.code = StatusNotFound
        /\ << resp.code, resp.body >> #
              << EmptyAnswer(resp.server).code, EmptyAnswer(resp.server).body >>

C11_EmptyNameRejected ==
    /\ "" \notin DOMAIN servers
    /\ (resp.handler = "update" /\ calls # <<>> /\ calls[Len(calls)].Name = "") =>
          resp.code # StatusOK

\* the access to c.servers a handler makes with its next step
WritesMap(h) == pc[h] = "create"

ReadsMap(h) == pc[h] \in {"lookup", "append", "assign"}

\* the access to the Statistics field of the server name a handler makes with
\* its next step
WritesHistory(h, name) == pc[h] = "assign" /\ stat[h].Name = name

ReadsHistory(h, name) == pc[h] = "append" /\ stat[h].Name = name

\* C12: the accesses to the map and to each history are synchronized: never is
\* one handler at a write of the map, or of a history, while another handler
\* is at a read or a write of that same map or history.
C12_Synchronized ==
    \A h1, h2 \in Handlers :
        h1 # h2 =>
            /\ ~(WritesMap(h1) /\ (WritesMap(h2) \/ ReadsMap(h2)))
            /\ \A name \in Names :
                  ~(WritesHistory(h1, name) /\
                      (WritesHistory(h2, name) \/ ReadsHistory(h2, name)))

\* C13: a get beside upserts works on one snapshot: the history its emptiness
\* test read, the one its 60-minute averages are of and the one its 24-hour
\* averages are of are the same history.
C13_OneSnapshot ==
    (reader.pc = "done" /\ Len(reader.seen) = 3) =>
        /\ reader.seen[1] = reader.seen[2]
        /\ reader.seen[2] = reader.seen[3]

\* C14: get and average only read: a step of get leaves the names in the map
\* and every history as they were, a get for an unknown name makes no entry,
\* and the history get handed to average is still the stored one, pulse for
\* pulse in the same order.
C14_ReadOnly ==
    [][ resp'.handler = "get" =>
           /\ servers' = servers
           /\ DOMAIN servers' = DOMAIN servers
           /\ resp'.saw = Saw(servers', resp'.server)
           /\ (resp'.server \notin DOMAIN servers) => (resp'.server \notin DOMAIN servers') ]_vars

\* a get for an unknown name was answered, and the map holds the other names only
C14_Witness ==
    /\ resp.handler = "get"
    /\ resp.saw = <<>>
    /\ servers # << >>
    /\ resp.server \notin DOMAIN servers

\* C17: the servers are kept apart.  With the requests served one after
\* another, the server under a name carries that name and so does every pulse
\* of its history, an upsert for one name leaves the server of every other
\* name as it was, and a get is answered from pulses of its own name only.
C17_Isolated ==
    /\ [](\A n \in DOMAIN servers :
            /\ servers[n].Name = n
            /\ \A k \in 1..Len(servers[n].Statistics) : servers[n].Statistics[k].Name = n)
    /\ []((resp.handler = "get" /\ resp.saw # <<>>) =>
            \A k \in 1..Len(resp.saw[1]) : resp.saw[1][k].Name = resp.server)
    /\ [][ calls' # calls =>
             \A n \in DOMAIN servers :
                 n # calls'[Len(calls')].Name =>
                     (n \in DOMAIN servers' /\ servers'[n] = servers[n]) ]_vars

\* an upsert for one name was just served while the map holds another name too
C17_Witness ==
    /\ resp.handler = "update"
    /\ resp.code = StatusOK
    /\ \E n \in DOMAIN servers : n # resp.server /\ servers[n].Statistics # <<>>

\* C18: with the requests served one after another, every server in the map
\* has at least one pulse, and no get is answered by the branch for a known
\* server with no pulse.
C18_NeverEmpty ==
    /\ \A n \in DOMAIN servers : Len(servers[n].Statistics) >= 1
    /\ resp.handler = "get" =>
          /\ resp.saw # << <<>> >>
          /\ resp.body # << "No update information", resp.server >>
          /\ resp.saw # <<>> => resp.body[1] = "Averages"

\* a get for a server in the map was answered, right after the upsert that
\* made the server
C18_Witness ==
    /\ resp.handler = "get"
    /\ resp.saw # <<>>
    /\ Len(calls) = 1
    /\ Len(servers[resp.server].Statistics) = 1

\* ---------------------------------------------------- what a scan should give
Done == scan.pc = "done"

Indices == 0..(Len(query.Statistics) - 1)

TimeOf(i) == At(query.Statistics, i).Time

NonDecreasing(Statistics) ==
    \A m, n \in 1..Len(Statistics) : m < n => Statistics[m].Time <= Statistics[n].Time

\* number of buckets of the window
Buckets == query.length \div query.rate

\* the indices of the pulses of bucket j: [start - j*rate, start - (j-1)*rate)
Bucket(j) ==
    { i \in Indices : /\ query.start - j * query.rate <= TimeOf(i)
                      /\ TimeOf(i) < query.start - (j - 1) * query.rate }

BucketNo(i) == CHOOSE j \in 1..Buckets : i \in Bucket(j)

RECURSIVE SumCpu(_)
SumCpu(S) ==
    IF S = {} THEN 0
    ELSE LET i == CHOOSE x \in S : TRUE
         IN  At(query.Statistics, i).Cpu + SumCpu(S \ {i})

RECURSIVE SumMem(_)
SumMem(S) ==
    IF S = {} THEN 0
    ELSE LET i == CHOOSE x \in S : TRUE
         IN  At(query.Statistics, i).Mem + SumMem(S \ {i})

Newest(S) == CHOOSE i \in S : \A x \in S : x <= i

\* the window the bucket definition speaks of: whole minutes wide, and every
\* pulse stamped before time.Now()
PlainWindow ==
    /\ query.rate % Minute = 0
    /\ \A i \in Indices : TimeOf(i) < query.start

\* the bucket each appended average stands for: that of the newest pulse in it
Emitted == [n \in 1..Len(scan.from) |-> BucketNo(Newest(scan.from[n]))]

\* C3: with timestamps non-decreasing in append order, every average that is
\* appended for a bucket j is the sum of the metric over all pulses stamped
\* in [start - j*rate, start - (j-1)*rate) divided by their number.
C3_BucketMeans ==
    (Done /\ NonDecreasing(query.Statistics) /\ PlainWindow) =>
        \A n \in 1..Len(scan.from) :
            LET B == Bucket(Emitted[n])
            IN  /\ SameNumber(scan.cpuaverages[n], Quotient(SumCpu(B), Cardinality(B)))
                /\ SameNumber(scan.memaverages[n], Quotient(SumMem(B), Cardinality(B)))

\* C4: with timestamps non-decreasing in append order and whatever the loads
\* are, the result has one entry for each bucket that holds a pulse and none
\* for an empty bucket, the most recent bucket first.
C4_OneEntryPerBucket ==
    (Done /\ NonDecreasing(query.Statistics) /\ PlainWindow) =>
        /\ Len(scan.cpuaverages) = Len(scan.from)
        /\ \A m, n \in 1..Len(scan.from) : m < n => Emitted[m] < Emitted[n]
        /\ { Emitted[n] : n \in 1..Len(scan.from) } = { j \in 1..Buckets : Bucket(j) # {} }

\* C5: seventy pulses, one a minute, the last at time.Now(): the 60-minute
\* query by the minute gives 60 averages, the n-th being the load of the one
\* pulse of the n-th most recent minute.
C5_SixtyBuckets ==
    (Done /\ Len(query.Statistics) = 70) =>
        /\ Len(scan.cpuaverages) = 60
        /\ Len(scan.memaverages) = 60
        /\ \A n \in 1..60 :
              \E i \in Bucket(n) :
                  /\ Bucket(n) = {i}
                  /\ SameNumber(scan.cpuaverages[n], Quotient(At(query.Statistics, i).Cpu, 1))
                  /\ SameNumber(scan.memaverages[n], Quotient(At(query.Statistics, i).Mem, 1))

OutOfWindow(i) == TimeOf(i) < query.start - query.length

\* C7: a pulse stamped before start - length is in no sum, no count and no
\* appended average: the accumulator holds exactly the pulses accumulated
\* since it was fresh, and none of them, nor any pulse behind an appended
\* average, is out of the window.
C7_WindowExclusion ==
    /\ scan.a.count = Cardinality(scan.acc)
    /\ scan.a.cpusum = SumCpu(scan.acc)
    /\ scan.a.memsum = SumMem(scan.acc)
    /\ \A i \in Indices : OutOfWindow(i) =>
          /\ i \notin scan.acc
          /\ \A n \in 1..Len(scan.from) : i \notin scan.from[n]

\* a scan that met a pulse out of the window after it appended an average
C7_Witness ==
    /\ Done
    /\ Len(scan.cpuaverages) >= 1
    /\ \E i \in Indices : OutOfWindow(i)
    /\ \E i \in Indices : ~OutOfWindow(i) /\ i \notin UNION { scan.from[n] : n \in 1..Len(scan.from) }

\* C8: the cpu and the mem averages are as many, and the two at one place are
\* the means over one and the same set of pulses.
C8_Aligned ==
    /\ Len(scan.cpuaverages) = Len(scan.memaverages)
    /\ Len(scan.cpuaverages) = Len(scan.from)
    /\ \A n \in 1..Len(scan.from) :
          /\ scan.cpuaverages[n] = Quotient(SumCpu(scan.from[n]), Cardinality(scan.from[n]))
          /\ scan.memaverages[n] = Quotient(SumMem(scan.from[n]), Cardinality(scan.from[n]))

\* a finished scan that appended two averages of each metric, over different pulses
C8_Witness ==
    /\ Done
    /\ Len(scan.cpuaverages) = 2
    /\ Len(scan.memaverages) = 2
    /\ scan.from[1] # scan.from[2]

\* the least durations whose boundary start - durations * rate is at or before
\* the far end start - length of the window
DurationLimit ==
    CHOOSE d \in 1..((query.length + Minute) \div query.rate + 1) :
        /\ DurationStart(query.start, d, query.rate) <= query.start - query.length
        /\ \A e \in 1..(d - 1) :
              DurationStart(query.start, e, query.rate) > query.start - query.length

\* a measure of the steps the scan has left
Rank(st) ==
    3 * (st.i + 2) + (DurationLimit - st.durations) + (IF st.pc = "for" THEN 1 ELSE 0)

\* C15: average ends for every history, in whatever order its timestamps are,
\* and every window of whole buckets: the index i goes down by one with every
\* round of the outer loop and stays while the inner loop runs, the inner loop
\* stops when durations reaches a limit given by the window, and a natural
\* number goes down with every step until the scan is done.
C15_Terminates ==
    /\ [](Rank(scan) >= 0 /\ scan.durations <= DurationLimit)
    /\ [](Done \/ ENABLED NextAvg)
    /\ [][ /\ Rank(scan') < Rank(scan)
           /\ scan'.pc # "while" => scan'.i = scan.i - 1
           /\ scan'.pc = "while" => scan'.i = scan.i ]_vars

\* a scan over a full history not in time order is done, the inner loop has run
C15_Witness ==
    /\ Done
    /\ Len(query.Statistics) = MaxLen
    /\ ~NonDecreasing(query.Statistics)
    /\ scan.durations >= 2

\* C16: no average is a division by a count of zero: every appended cpu and
\* mem average was divided by a count of at least one, and all through the
\* scan a count of zero goes with a cpusum and a memsum of zero.
C16_NoDivisionByZero ==
    /\ \A n \in 1..Len(scan.cpuaverages) : scan.cpuaverages[n][2] >= 1
    /\ \A n \in 1..Len(scan.memaverages) : scan.memaverages[n][2] >= 1
    /\ scan.a.count >= 0
    /\ scan.a.count = 0 => (scan.a.cpusum = 0 /\ scan.a.memsum = 0)
    /\ scan.a.cpusum > 0 => scan.a.count >= 1

\* the inner loop has appended an average and left a fresh accumulator, and
\* the scan goes on
C16_Witness ==
    /\ scan.pc = "while"
    /\ Len(scan.cpuaverages) = 1
    /\ scan.a = NewAverage
    /\ scan.i >= 1

====
